---- MODULE Spec2Model ----
(***************************************************************************)
(* Model of the virtual-environment inventory of devenv-mcp:               *)
(*   tools/venv.py      _get_venv_info, devenv_venv_list                   *)
(*   utils/commands.py  run_command, CommandResult                         *)
(*   utils/platform.py  PlatformHelper.get_venv_python_path                *)
(* One devenv_venv_list call fans _get_venv_info out over the discovered   *)
(* paths; each _get_venv_info runs a version probe and a package probe     *)
(* through run_command and joins them into a VenvInfo.                     *)
(* Text is a sequence of one-character strings, JSON text a sequence of    *)
(* lexical tokens.                                                         *)
(***************************************************************************)
EXTENDS Integers, Sequences, FiniteSets, TLC

\* ---------------------------------------------------------------- bounds
\* largest number of venv paths handed to one fan-out
MaxPaths == 2

\* ------------------------------------------------------------- constants
\* run_command's exit code for a missing executable (commands.py:153)
NotFoundCode == 127
\* length of the literal prefix cut by version_output[7:] (venv.py:131)
PrefixLen == 7

\* ------------------------------------------------------------------ text
Whitespace == {" ", "\n", "\t"}

RECURSIVE LStrip(_)
LStrip(s) ==
    IF s # <<>> /\ Head(s) \in Whitespace THEN LStrip(Tail(s)) ELSE s

RECURSIVE RStrip(_)
RStrip(s) ==
    IF s # <<>> /\ s[Len(s)] \in Whitespace
    THEN RStrip(SubSeq(s, 1, Len(s) - 1))
    ELSE s

\* str.strip()
Strip(s) == RStrip(LStrip(s))

\* str.startswith(prefix)
StartsWith(s, prefix) ==
    /\ Len(s) >= Len(prefix)
    /\ SubSeq(s, 1, Len(prefix)) = prefix

\* s[n:]
DropFirstOffByOne(s, n) == IF n > Len(s) THEN <<>> ELSE SubSeq(s, n, Len(s))
DropFirst(s, n) == IF n >= Len(s) THEN <<>> ELSE SubSeq(s, n + 1, Len(s))

PythonPrefix == <<"P", "y", "t", "h", "o", "n", " ">>
Unknown == <<"u", "n", "k", "n", "o", "w", "n">>

\* ----------------------------------------------------------------- paths
\* a path is its sequence of segments below the root
PathPool ==
    << <<"envs", "alpha">>, <<"envs", "beta">>,
       <<"work", ".venv">>, <<"envs", "gamma">>, <<"envs", "delta">> >>

\* Path.name: the final path segment
PathName(p) == p[Len(p)]

RECURSIVE PathStr(_)
\* str(path): the segments joined with the separator
PathStr(p) ==
    IF p = <<>> THEN <<>> ELSE <<"/", Head(p)>> \o PathStr(Tail(p))


\* ------------------------------------------------------------ JSON text
\* Lexical tokens of the JSON text a package probe prints.  "obj" is an
\* object with one key, "str" a two-character string, "num" a number and
\* "null" the null literal; any other token is not JSON.
JsonAtoms == {"obj", "str", "num", "null"}

\* the elements between the brackets: item ("," item)*
RECURSIVE JsonItems(_)
JsonItems(toks) ==
    IF toks = <<>> THEN -1
    ELSE IF Head(toks) \notin JsonAtoms THEN -1
    ELSE IF Len(toks) = 1 THEN 1
    ELSE IF toks[2] # "," THEN -1
    ELSE LET rest == JsonItems(SubSeq(toks, 3, Len(toks)))
         IN  IF rest = -1 THEN -1 ELSE rest + 1

\* json.loads: the parsed value, or kind "error" for json.JSONDecodeError.
\* size is what len() of the value counts where len() is defined.
JsonLoads(toks) ==
    IF Len(toks) = 1 /\ toks[1] \in JsonAtoms
    THEN [kind |-> toks[1],
          size |-> IF toks[1] = "obj" THEN 1
                   ELSE IF toks[1] = "str" THEN 2 ELSE 0]
    ELSE IF Len(toks) >= 2 /\ toks[1] = "[" /\ toks[Len(toks)] = "]"
    THEN IF Len(toks) = 2
         THEN [kind |-> "array", size |-> 0]
         ELSE LET n == JsonItems(SubSeq(toks, 2, Len(toks) - 1))
              IN  IF n = -1 THEN [kind |-> "error", size |-> 0]
                  ELSE [kind |-> "array", size |-> n]
    ELSE [kind |-> "error", size |-> 0]

\* len(value) raises TypeError for a number and for None
HasLen(value) == value.kind \in {"array", "obj", "str"}

\* ---------------------------------------------------------- run_command
\* What the operating system does with one command: the process exits
\* with a code and raw output, outlives the timeout, cannot be found, or
\* cannot be spawned for another reason.
Exit(code, out) == [kind |-> "exit", code |-> code, out |-> out]
TimedOut == [kind |-> "timeout", code |-> 0, out |-> <<>>]
NotFound == [kind |-> "notfound", code |-> 0, out |-> <<>>]
SpawnDenied == [kind |-> "oserror", code |-> 0, out |-> <<>>]

\* a probe that has not completed
Pending == [type |-> "pending", returncode |-> 0, stdout |-> <<>>, exc |-> ""]

CommandResult(returncode, stdout) ==
    [type |-> "result", returncode |-> returncode, stdout |-> stdout, exc |-> ""]

Raised(exc) == [type |-> "exc", returncode |-> 0, stdout |-> <<>>, exc |-> exc]

\* CommandResult.success
Success(r) == r.returncode = 0

\* isinstance(r, Exception)
IsException(r) == r.type = "exc"

\* run_command(command, timeout, check=False): the value awaiting it gives
RunCommand(os) ==
    CASE os.kind = "exit" -> CommandResult(os.code, Strip(os.out))
      [] os.kind = "timeout" -> Raised("TimeoutError")
      [] os.kind = "notfound" -> CommandResult(NotFoundCode, <<>>)
      [] OTHER -> Raised("PermissionError")


\* ------------------------------------------------------- probe outcomes
\* raw output of `python --version`
OutPython311 == PythonPrefix \o <<"3", ".", "1", "1", ".", "5", "\n">>
OutPythonUnknown == PythonPrefix \o Unknown \o <<"\n">>
OutBareVersion == <<"3", ".", "1", "1", ".", "5", "\n">>

\* token text of `pip list --format=json`
OutPipTwo == <<"[", "obj", ",", "obj", "]">>
OutPipNotJson == <<"not", "valid", "json">>
OutPipObject == <<"obj">>
OutPipNull == <<"null">>

\* what the version probe's command may do
VersionOutcomes ==
    { Exit(0, OutPython311), Exit(0, OutPythonUnknown), Exit(0, OutBareVersion),
      Exit(1, OutPython311), TimedOut, SpawnDenied }

\* what the package probe's command may do
PackageOutcomes ==
    { Exit(0, OutPipTwo), Exit(0, OutPipNotJson), Exit(0, OutPipObject),
      Exit(0, OutPipNull), TimedOut, NotFound }

\* -------------------------------------------------------- _get_venv_info
VenvInfo(name, path, python_version, packages_count, is_valid) ==
    [name |-> name, path |-> path, python_version |-> python_version,
     packages_count |-> packages_count, is_valid |-> is_valid]

\* no descriptor (the call has not returned, or it raised)
NoInfo == VenvInfo("", <<>>, <<>>, 0, FALSE)

\* `if not python_path.exists()`: return at once, before any probe
SkipProbesAlways(exists) == FALSE
SkipProbes(exists) == ~exists

\* the descriptor of the early return and of the except branch
DegradedInfo(p) == VenvInfo(PathName(p), PathStr(p), Unknown, 0, FALSE)

\* asyncio.gather(version_task, packages_task, return_exceptions=True):
\* completes when both probes have completed, hands exceptions back as
\* values and never raises one
InnerGatherFailFast(v, p) ==
    [ready |-> \/ IsException(v) \/ IsException(p)
               \/ (v # Pending /\ p # Pending),
     raises |-> IsException(v) \/ IsException(p)]
InnerGather(v, p) ==
    [ready |-> v # Pending /\ p # Pending, raises |-> FALSE]

\* "Parse Python version"
ParseVersionAnyExit(version_result) ==
    IF ~IsException(version_result)
       /\ StartsWith(Strip(version_result.stdout), PythonPrefix)
    THEN DropFirst(Strip(version_result.stdout), PrefixLen)
    ELSE Unknown
ParseVersion(version_result) ==
    IF ~IsException(version_result) /\ Success(version_result)
    THEN LET version_output == Strip(version_result.stdout)
         IN  IF StartsWith(version_output, PythonPrefix)
             THEN DropFirst(version_output, PrefixLen)
             ELSE Unknown
    ELSE Unknown

\* "Parse package count": only json.JSONDecodeError is caught, so the
\* TypeError of len() leaves the function
ParsePackages(packages_result) ==
    IF ~IsException(packages_result) /\ Success(packages_result)
    THEN LET packages == JsonLoads(packages_result.stdout)
         IN  IF packages.kind = "error"
             THEN [raises |-> FALSE, count |-> 0]
             ELSE IF HasLen(packages)
             THEN [raises |-> FALSE, count |-> packages.size]
             ELSE [raises |-> TRUE, count |-> 0]
    ELSE [raises |-> FALSE, count |-> 0]

\* "Determine if valid"
IsValidAnyVersion(version_result, packages_result, python_version) ==
    ~IsException(version_result) /\ Success(version_result)
IsValidBothSucceeded(version_result, packages_result, python_version) ==
    /\ ~IsException(version_result)
    /\ Success(version_result)
    /\ python_version # Unknown
    /\ ~IsException(packages_result)
    /\ Success(packages_result)
IsValid(version_result, packages_result, python_version) ==
    /\ ~IsException(version_result)
    /\ Success(version_result)
    /\ python_version # Unknown

\* ------------------------------------------------------ devenv_venv_list
\* asyncio.gather(*[_get_venv_info(path) ...]): the results in the order of
\* the awaitables; the first exception of a child is raised to the caller
OuterGatherAsCompleted(ts, ord) ==
    [ready |-> \A i \in DOMAIN ts : ts[i].pc = "done",
     raises |-> \E i \in DOMAIN ts : ts[i].pc = "raised",
     value |-> [k \in 1..Len(ord) |-> ts[ord[k]].info]]
OuterGatherValidOnly(ts, ord) ==
    [ready |-> \A i \in DOMAIN ts : ts[i].pc = "done",
     raises |-> \E i \in DOMAIN ts : ts[i].pc = "raised",
     value |-> SelectSeq([i \in DOMAIN ts |-> ts[i].info],
                         LAMBDA d : d.is_valid)]
OuterGather(ts, ord) ==
    [ready |-> \A i \in DOMAIN ts : ts[i].pc = "done",
     raises |-> \E i \in DOMAIN ts : ts[i].pc = "raised",
     value |-> [i \in DOMAIN ts |-> ts[i].info]]

\* ----------------------------------------------------------------- state
VARIABLES
    venv_paths,   \* the discovered paths handed to the fan-out
    tasks,        \* one _get_venv_info call per path
    order,        \* the calls in the order they finished
    listPc,       \* devenv_venv_list: "gathering", "returned" or "raised"
    venv_infos,   \* the list devenv_venv_list returns
    disc,         \* one _discover_venvs call
    cmd,          \* one run_command call
    del,          \* one devenv_venv_delete call
    vt,           \* one call of another venv tool
    pk,           \* one devenv_port_kill call
    cl,           \* one devenv_cleanup call
    hc,           \* one devenv_health_check call
    dk            \* one DockerClientWrapper

vars ==
    <<venv_paths, tasks, order, listPc, venv_infos, disc, cmd, del,
      vt, pk, cl, hc, dk>>

\* a call that is not part of the run
Off == [pc |-> "off"]

\* the calls of the other tools, and their not being part of the run
restVars == <<vt, pk, cl, hc, dk>>
RestOff == vt = Off /\ pk = Off /\ cl = Off /\ hc = Off /\ dk = Off

\* the calls the fan-out leaves alone
fanOthers == <<disc, cmd, del, restVars>>

NewTask ==
    [pc |-> "new", exists |-> FALSE,
     version_result |-> Pending, packages_result |-> Pending,
     spawned |-> 0, running |-> 0, info |-> NoInfo]

Init ==
    /\ \E k \in 0..MaxPaths : venv_paths = SubSeq(PathPool, 1, k)
    /\ tasks = [i \in 1..Len(venv_paths) |-> NewTask]
    /\ order = <<>>
    /\ listPc = "gathering"
    /\ venv_infos = <<>>
    /\ disc = Off
    /\ cmd = Off
    /\ del = Off
    /\ RestOff

\* _get_venv_info up to the first await: stat the interpreter
StartInfo(i) ==
    /\ tasks[i].pc = "new"
    /\ \E exists \in BOOLEAN :
         IF SkipProbes(exists)
         THEN /\ tasks' = [tasks EXCEPT ![i].pc = "done",
                                        ![i].exists = exists,
                                        ![i].info = DegradedInfo(venv_paths[i])]
              /\ order' = Append(order, i)
         ELSE /\ tasks' = [tasks EXCEPT ![i].pc = "gather",
                                        ![i].exists = exists]
              /\ order' = order
    /\ UNCHANGED <<venv_paths, listPc, venv_infos>>
    /\ UNCHANGED fanOthers

\* a timed-out command's process is not killed by run_command
StillRunning(os) == IF os.kind = "timeout" THEN 1 ELSE 0

\* the version probe: run_command([python, "--version"], timeout=10.0)
VersionProbeRetry(i) ==
    /\ tasks[i].pc = "gather"
    /\ \/ tasks[i].version_result = Pending
       \/ (IsException(tasks[i].version_result) /\ tasks[i].spawned < 3)
    /\ \E os \in VersionOutcomes :
         tasks' = [tasks EXCEPT
                     ![i].version_result = RunCommand(os),
                     ![i].spawned = @ + 1,
                     ![i].running = @ + StillRunning(os)]
    /\ UNCHANGED <<venv_paths, order, listPc, venv_infos>>
    /\ UNCHANGED fanOthers
VersionProbe(i) ==
    /\ tasks[i].pc = "gather"
    /\ tasks[i].version_result = Pending
    /\ \E os \in VersionOutcomes :
         tasks' = [tasks EXCEPT
                     ![i].version_result = RunCommand(os),
                     ![i].spawned = @ + 1,
                     ![i].running = @ + StillRunning(os)]
    /\ UNCHANGED <<venv_paths, order, listPc, venv_infos>>
    /\ UNCHANGED fanOthers

\* the package probe: run_command([pip, "list", "--format=json"], timeout=30.0)
PackagesProbe(i) ==
    /\ tasks[i].pc = "gather"
    /\ tasks[i].packages_result = Pending
    /\ \E os \in PackageOutcomes :
         tasks' = [tasks EXCEPT
                     ![i].packages_result = RunCommand(os),
                     ![i].spawned = @ + 1,
                     ![i].running = @ + StillRunning(os)]
    /\ UNCHANGED <<venv_paths, order, listPc, venv_infos>>
    /\ UNCHANGED fanOthers

\* _get_venv_info from the return of the gather to its own return
FinishInfo(i) ==
    LET t == tasks[i]
        g == InnerGather(t.version_result, t.packages_result)
        python_version == ParseVersion(t.version_result)
        packages == ParsePackages(t.packages_result)
    IN  /\ t.pc = "gather"
        /\ g.ready
        /\ IF g.raises
           THEN tasks' = [tasks EXCEPT ![i].pc = "done",
                                       ![i].info = DegradedInfo(venv_paths[i])]
           ELSE IF packages.raises
           THEN tasks' = [tasks EXCEPT ![i].pc = "raised"]
           ELSE tasks' = [tasks EXCEPT
                            ![i].pc = "done",
                            ![i].info =
                                VenvInfo(PathName(venv_paths[i]),
                                         PathStr(venv_paths[i]),
                                         python_version,
                                         packages.count,
                                         IsValid(t.version_result,
                                                 t.packages_result,
                                                 python_version))]
        /\ order' = Append(order, i)
        /\ UNCHANGED <<venv_paths, listPc, venv_infos>>
        /\ UNCHANGED fanOthers

\* devenv_venv_list returns: no path found, or every call has returned
ListReturn ==
    /\ listPc = "gathering"
    /\ LET g == OuterGather(tasks, order)
       IN  /\ g.ready
           /\ venv_infos' = IF venv_paths = <<>> THEN <<>> ELSE g.value
    /\ listPc' = "returned"
    /\ UNCHANGED <<venv_paths, tasks, order>>
    /\ UNCHANGED fanOthers

\* the exception of a call leaves the gather and devenv_venv_list
ListRaise ==
    /\ listPc = "gathering"
    /\ OuterGather(tasks, order).raises
    /\ listPc' = "raised"
    /\ UNCHANGED <<venv_paths, tasks, order, venv_infos>>
    /\ UNCHANGED fanOthers

Next ==
    \/ \E i \in DOMAIN tasks : StartInfo(i)
    \/ \E i \in DOMAIN tasks : VersionProbe(i)
    \/ \E i \in DOMAIN tasks : PackagesProbe(i)
    \/ \E i \in DOMAIN tasks : FinishInfo(i)
    \/ ListReturn
    \/ ListRaise

Spec == Init /\ [][Next]_vars


\* ------------------------------------------------- run_command, by steps
\* the fan-out when no devenv_venv_list call is part of the run
FanOff ==
    /\ venv_paths = <<>>
    /\ tasks = <<>>
    /\ order = <<>>
    /\ listPc = "off"
    /\ venv_infos = <<>>

fanVars == <<venv_paths, tasks, order, listPc, venv_infos>>

\* exit codes of a process; a negative code is the signal that ended it
ExitCodes == {0, 1, 2, -9}

\* raw standard output and standard error of a process
RawOutputs == {<<>>, OutPython311, OutBareVersion, <<" ", "o", "k", "\n">>}
RawErrors == {<<>>, <<"E", "r", "r", "o", "r", "\n">>, <<"w", "a", "r", "n">>}

\* CommandResult with every field run_command fills in
FullResult(returncode, stdout, stderr) ==
    [returncode |-> returncode, stdout |-> stdout, stderr |-> stderr]

NoResult == FullResult(0, <<>>, <<>>)

\* `process.returncode or 0`
ReturnCodeOrZero(code) == IF code = 0 THEN 0 ELSE code

\* `if check and not result.success: raise CommandError(result)`
CheckFailsAlways(check, result) == result.returncode # 0
CheckFails(check, result) == check /\ result.returncode # 0

\* the text of "Command not found: <filename>"
NotFoundText == <<"C", "o", "m", "m", "a", "n", "d", " ", "n", "o", "t", " ",
                  "f", "o", "u", "n", "d">>

CmdInit ==
    /\ \E check \in BOOLEAN :
         cmd = [pc |-> "start", check |-> check, os |-> TimedOut,
                code |-> 0, out |-> <<>>, err |-> <<>>,
                result |-> NoResult, exc |-> "", running |-> 0]
    /\ FanOff
    /\ disc = Off
    /\ del = Off
    /\ RestOff

cmdOthers == <<fanVars, disc, del, restVars>>

\* asyncio.create_subprocess_exec: the process starts
CmdSpawn ==
    /\ cmd.pc = "start"
    /\ cmd' = [cmd EXCEPT !.pc = "waiting", !.running = 1]
    /\ UNCHANGED cmdOthers

\* the executable does not exist: FileNotFoundError becomes exit code 127
CmdNotFound ==
    /\ cmd.pc = "start"
    /\ cmd' = [cmd EXCEPT !.pc = "returned", !.os = NotFound,
                          !.result = FullResult(NotFoundCode, <<>>, NotFoundText)]
    /\ UNCHANGED cmdOthers

\* the spawn fails with another OSError, which run_command does not catch
CmdSpawnDenied ==
    /\ cmd.pc = "start"
    /\ cmd' = [cmd EXCEPT !.pc = "raised", !.os = SpawnDenied,
                          !.exc = "PermissionError"]
    /\ UNCHANGED cmdOthers

\* process.communicate() returns before the timeout
CmdExit ==
    /\ cmd.pc = "waiting"
    /\ \E code \in ExitCodes, out \in RawOutputs, err \in RawErrors :
         LET result == FullResult(ReturnCodeOrZero(code), Strip(out), Strip(err))
         IN  cmd' = [cmd EXCEPT
                       !.os = Exit(code, out), !.code = code,
                       !.out = out, !.err = err,
                       !.running = 0,
                       !.result = result,
                       !.exc = IF CheckFails(cmd.check, result)
                               THEN "CommandError" ELSE "",
                       !.pc = IF CheckFails(cmd.check, result)
                              THEN "raised" ELSE "returned"]
    /\ UNCHANGED cmdOthers

\* asyncio.wait_for gives up: TimeoutError is logged and raised again, the
\* process is not touched
CmdTimeout ==
    /\ cmd.pc = "waiting"
    /\ cmd' = [cmd EXCEPT !.pc = "raised", !.os = TimedOut,
                          !.exc = "TimeoutError"]
    /\ UNCHANGED cmdOthers

CmdNext ==
    \/ CmdSpawn
    \/ CmdNotFound
    \/ CmdSpawnDenied
    \/ CmdExit
    \/ CmdTimeout

SpecCommand == CmdInit /\ [][CmdNext]_vars

\* ------------------------------------------------------- _discover_venvs
\* largest number of entries in the global registry directory
MaxChildren == 2

\* local_venv_names
LocalVenvNamesSwapped == <<".venv", "venv">>
LocalVenvNames == <<"venv", ".venv">>

\* names an entry of the registry directory may have
ChildNames == {"proj-a", "proj-b", "other"}

\* the characters of a name
Chars(name) ==
    CASE name = "venv" -> <<"v", "e", "n", "v">>
      [] name = ".venv" -> <<".", "v", "e", "n", "v">>
      [] name = "proj-a" -> <<"p", "r", "o", "j", "-", "a">>
      [] name = "proj-b" -> <<"p", "r", "o", "j", "-", "b">>
      [] OTHER -> <<"o", "t", "h", "e", "r">>

\* a directory entry: what it is, and whether <entry>/bin/python exists
Entry(kind, python) == [kind |-> kind, python |-> python]
Absent == Entry("absent", FALSE)
Entries == {Absent, Entry("file", FALSE), Entry("dir", FALSE), Entry("dir", TRUE)}

\* working_dir / name and get_default_venv_location() / name
LocalPath(name) == <<"work", name>>
GlobalPath(name) == <<"home", ".venvs", name>>

\* _is_valid_venv: the interpreter path below the directory exists
IsValidVenvAlways(entry) == TRUE
IsValidVenv(entry) == entry.python

\* Path.exists() and Path.is_dir()
Exists(entry) == entry.kind # "absent"
IsDir(entry) == entry.kind = "dir"

\* `global_venvs_dir.exists() and global_venvs_dir.is_dir()`
GlobalGuardNone(registry) == TRUE
GlobalGuard(registry) == Exists(registry) /\ IsDir(registry)

\* name_pattern: None, or the text of a glob pattern
NoPattern == [given |-> FALSE, text |-> <<>>]
Pattern(text) == [given |-> TRUE, text |-> text]
Patterns ==
    { NoPattern, Pattern(<<>>),
      Pattern(<<"p", "r", "o", "j", "-", "*">>),
      Pattern(<<"*", "e", "n", "v">>),
      Pattern(<<"[", "p", "o", "]", "*">>),
      Pattern(<<"?", "t", "h", "e", "r">>),
      Pattern(<<"v", "e", "n", "v">>),
      Pattern(<<"*">>) }

\* `if name_pattern:`: None and the empty string filter nothing
Truthy(pattern) == pattern.given /\ pattern.text # <<>>

\* fnmatch: the index of the "]" that closes the class opened at pat[1],
\* or 0 when the "[" is not closed and stands for itself
ClassEnd(pat) ==
    LET afterBang == IF Len(pat) >= 2 /\ pat[2] = "!" THEN 3 ELSE 2
        from == IF Len(pat) >= afterBang /\ pat[afterBang] = "]"
                THEN afterBang + 1 ELSE afterBang
        ends == {j \in from..Len(pat) : pat[j] = "]"}
    IN  IF ends = {} THEN 0 ELSE CHOOSE j \in ends : \A k \in ends : j <= k

\* whether character c is in the class pat[1..end]
InClass(c, pat, end) ==
    LET negated == pat[2] = "!"
        first == IF negated THEN 3 ELSE 2
        members == {pat[j] : j \in first..(end - 1)}
    IN  IF negated THEN c \notin members ELSE c \in members

RECURSIVE Fnmatch(_, _)
\* fnmatch.fnmatch(name, pattern) on a POSIX host: "*" is any run of
\* characters, "?" any one character, "[...]" one character of a class
FnmatchLiteral(name, pat) == name = pat
Fnmatch(name, pat) ==
    IF pat = <<>> THEN name = <<>>
    ELSE IF Head(pat) = "*"
    THEN \/ Fnmatch(name, Tail(pat))
         \/ (name # <<>> /\ Fnmatch(Tail(name), pat))
    ELSE IF name = <<>> THEN FALSE
    ELSE IF Head(pat) = "?" THEN Fnmatch(Tail(name), Tail(pat))
    ELSE IF Head(pat) = "[" /\ ClassEnd(pat) # 0
    THEN /\ InClass(Head(name), pat, ClassEnd(pat))
         /\ Fnmatch(Tail(name), DropFirst(pat, ClassEnd(pat)))
    ELSE Head(name) = Head(pat) /\ Fnmatch(Tail(name), Tail(pat))

\* the listings a registry directory may give: distinct names, any order
Listings ==
    UNION { { l \in [1..n -> [name : ChildNames, entry : Entries \ {Absent}]] :
                \A a, b \in 1..n : a # b => l[a].name # l[b].name }
            : n \in 0..MaxChildren }

DiscInit ==
    /\ \E work_exists \in BOOLEAN, local \in [1..2 -> Entries],
          include_global \in BOOLEAN, registry \in Entries,
          readable \in BOOLEAN, listing \in Listings, pattern \in Patterns :
         /\ ~work_exists => \A k \in 1..2 : local[k] = Absent
         /\ registry.python = FALSE
         /\ ~(IsDir(registry) /\ readable) => listing = <<>>
         /\ ~IsDir(registry) => readable
         /\ disc = [pc |-> "local", idx |-> 1,
                    work_exists |-> work_exists, local |-> local,
                    include_global |-> include_global,
                    registry |-> registry, readable |-> readable,
                    listing |-> listing, name_pattern |-> pattern,
                    discovered |-> <<>>]
    /\ FanOff
    /\ cmd = Off
    /\ del = Off
    /\ RestOff

discOthers == <<fanVars, cmd, del, restVars>>

\* one turn of `for venv_name in local_venv_names`
DiscLocal ==
    /\ disc.pc = "local"
    /\ LET venv_name == LocalVenvNames[disc.idx]
           entry == IF venv_name = "venv" THEN disc.local[1] ELSE disc.local[2]
           found == Exists(entry) /\ IsDir(entry) /\ IsValidVenv(entry)
       IN  disc' = [disc EXCEPT
                      !.discovered = IF found
                                     THEN Append(@, LocalPath(venv_name)) ELSE @,
                      !.idx = IF disc.idx = Len(LocalVenvNames) THEN 1 ELSE @ + 1,
                      !.pc = IF disc.idx = Len(LocalVenvNames)
                             THEN "global" ELSE "local"]
    /\ UNCHANGED discOthers

\* `if include_global:` down to the call of iterdir(), which raises for a
\* directory that cannot be listed
DiscGlobal ==
    /\ disc.pc = "global"
    /\ disc' = [disc EXCEPT
                  !.pc = IF disc.include_global /\ GlobalGuard(disc.registry)
                         THEN IF IsDir(disc.registry) /\ disc.readable
                              THEN "children" ELSE "raised"
                         ELSE "filter"]
    /\ UNCHANGED discOthers

\* one turn of `for child in global_venvs_dir.iterdir()`, or its end
DiscChild ==
    /\ disc.pc = "children"
    /\ IF disc.idx > Len(disc.listing)
       THEN disc' = [disc EXCEPT !.pc = "filter"]
       ELSE LET child == disc.listing[disc.idx]
                found == IsDir(child.entry) /\ IsValidVenv(child.entry)
            IN  disc' = [disc EXCEPT
                           !.discovered = IF found
                                          THEN Append(@, GlobalPath(child.name))
                                          ELSE @,
                           !.idx = @ + 1]
    /\ UNCHANGED discOthers

\* "Apply name pattern filter if specified" and return
DiscFilter ==
    /\ disc.pc = "filter"
    /\ disc' = [disc EXCEPT
                  !.pc = "returned",
                  !.discovered =
                      IF Truthy(disc.name_pattern)
                      THEN SelectSeq(@, LAMBDA p :
                               Fnmatch(Chars(PathName(p)), disc.name_pattern.text))
                      ELSE @]
    /\ UNCHANGED discOthers

DiscNext ==
    \/ DiscLocal
    \/ DiscGlobal
    \/ DiscChild
    \/ DiscFilter

SpecDiscover == DiscInit /\ [][DiscNext]_vars

\* ---------------------------------------------------- devenv_venv_delete
\* _get_venv_info awaited alone: the descriptor it returns, or the
\* exception that leaves it, and the number of subprocesses it spawned
GetVenvInfo(p, python, vo, po) ==
    IF SkipProbes(python)
    THEN [raises |-> FALSE, info |-> DegradedInfo(p), spawns |-> 0]
    ELSE LET version_result == RunCommand(vo)
             packages_result == RunCommand(po)
             python_version == ParseVersion(version_result)
             packages == ParsePackages(packages_result)
         IN  IF InnerGather(version_result, packages_result).raises
             THEN [raises |-> FALSE, info |-> DegradedInfo(p), spawns |-> 2]
             ELSE IF packages.raises
             THEN [raises |-> TRUE, info |-> NoInfo, spawns |-> 2]
             ELSE [raises |-> FALSE,
                   info |-> VenvInfo(PathName(p), PathStr(p), python_version,
                                     packages.count,
                                     IsValid(version_result, packages_result,
                                             python_version)),
                   spawns |-> 2]

\* the arguments `name` and `path`; None is the default of both
None == "None"
Names == {None, "old-project"}
TargetPaths == {None, "/work/.venv"}

\* "Determine the target path"
HasTarget(name, path) == path # None \/ name # None
TargetPath(name, path) ==
    IF path # None THEN <<"work", ".venv">> ELSE GlobalPath(name)

\* what is on disk at the target: its kind, whether the interpreter is in
\* it, and whether it holds pyvenv.cfg, Scripts or bin
Target(kind, python, markers) ==
    [kind |-> kind, python |-> python, markers |-> markers]
Gone == Target("absent", FALSE, FALSE)
Targets ==
    {Gone, Target("file", FALSE, FALSE), Target("dir", FALSE, FALSE),
     Target("dir", FALSE, TRUE), Target("dir", TRUE, TRUE)}

\* "Verify it looks like a venv (safety check)"
LooksLikeVenvAlways(target) == TRUE
LooksLikeVenv(target) == IsValidVenv(target) \/ target.markers

\* the answers of ctx.elicit: only an accepted answer carries data
Response(action, has_data, confirm) ==
    [action |-> action, has_data |-> has_data, confirm |-> confirm]
NoResponse == Response("", FALSE, FALSE)
Responses ==
    {Response("accept", TRUE, TRUE), Response("accept", TRUE, FALSE),
     Response("accept", FALSE, FALSE), Response("decline", FALSE, FALSE),
     Response("cancel", FALSE, FALSE)}

\* "Check response": the negation of the condition that cancels
ConfirmedAnyAccept(result) == result.action = "accept"
Confirmed(result) ==
    ~(result.action # "accept" \/ ~result.has_data \/ ~result.confirm)

\* what shutil.rmtree does to the target
RmtreeOutcomes == {"removed", "PermissionError", "OSError"}

\* the returned messages, without the interpolated path
MsgNoTarget == "Error: Must provide either 'name' or 'path'"
MsgNotFound == "Error: Venv not found"
MsgNotVenv == "Error: does not appear to be a virtual environment"
MsgCancelled == "Deletion cancelled"
MsgDeleted == "Successfully deleted virtual environment"
MsgPermission == "Error: Permission denied - could not delete"
MsgFailed == "Error: Failed to delete venv"

DelInit ==
    /\ \E name \in Names, path \in TargetPaths, target \in Targets :
         del = [pc |-> "target", name |-> name, path |-> path,
                before |-> target, target |-> target,
                info |-> NoInfo, spawns |-> 0, elicits |-> 0,
                response |-> NoResponse, result |-> ""]
    /\ FanOff
    /\ disc = Off
    /\ cmd = Off
    /\ RestOff

delOthers == <<fanVars, disc, cmd, restVars>>

\* the message a return hands back
DelReturn(msg) == [del EXCEPT !.pc = "returned", !.result = msg]

\* "Determine the target path"
DelTarget ==
    /\ del.pc = "target"
    /\ del' = IF HasTarget(del.name, del.path)
              THEN [del EXCEPT !.pc = "exists"]
              ELSE DelReturn(MsgNoTarget)
    /\ UNCHANGED delOthers

\* "Check if the venv exists"
DelExists ==
    /\ del.pc = "exists"
    /\ del' = IF ~Exists(del.target)
              THEN DelReturn(MsgNotFound)
              ELSE [del EXCEPT !.pc = "safety"]
    /\ UNCHANGED delOthers

\* "Verify it looks like a venv (safety check)"
DelSafety ==
    /\ del.pc = "safety"
    /\ del' = IF ~LooksLikeVenv(del.target)
              THEN DelReturn(MsgNotVenv)
              ELSE [del EXCEPT !.pc = "info"]
    /\ UNCHANGED delOthers

\* "Get venv info for confirmation message"
DelInfo ==
    /\ del.pc = "info"
    /\ \E vo \in VersionOutcomes, po \in PackageOutcomes :
         LET r == GetVenvInfo(TargetPath(del.name, del.path),
                              IsValidVenv(del.target), vo, po)
         IN  del' = [del EXCEPT !.pc = IF r.raises THEN "raised" ELSE "elicit",
                                !.info = r.info,
                                !.spawns = @ + r.spawns]
    /\ UNCHANGED delOthers

\* "Request confirmation for destructive operation": the client answers
DelElicit ==
    /\ del.pc = "elicit"
    /\ \E response \in Responses :
         del' = [del EXCEPT !.pc = "response", !.elicits = @ + 1,
                            !.response = response]
    /\ UNCHANGED delOthers

\* the request for confirmation fails (a client without elicitation)
DelElicitRaises ==
    /\ del.pc = "elicit"
    /\ del' = [del EXCEPT !.pc = "raised", !.elicits = @ + 1]
    /\ UNCHANGED delOthers

\* "Check response"
DelResponse ==
    /\ del.pc = "response"
    /\ del' = IF Confirmed(del.response)
              THEN [del EXCEPT !.pc = "rmtree"]
              ELSE DelReturn(MsgCancelled)
    /\ UNCHANGED delOthers

\* "Proceed with deletion": rmtree removes the tree, or fails after it has
\* removed none or some of it
DelRmtree ==
    /\ del.pc = "rmtree"
    /\ \E outcome \in RmtreeOutcomes :
         \/ /\ outcome = "removed"
            /\ del' = [DelReturn(MsgDeleted) EXCEPT !.target = Gone]
         \/ /\ outcome # "removed"
            /\ \E left \in {del.target, Target(del.target.kind, FALSE, FALSE)} :
                 del' = [DelReturn(IF outcome = "PermissionError"
                                   THEN MsgPermission ELSE MsgFailed)
                         EXCEPT !.target = left]
    /\ UNCHANGED delOthers

DelNext ==
    \/ DelTarget
    \/ DelExists
    \/ DelSafety
    \/ DelInfo
    \/ DelElicit
    \/ DelElicitRaises
    \/ DelResponse
    \/ DelRmtree

SpecDelete == DelInit /\ [][DelNext]_vars

\* ------------- devenv_venv_install, _list_packages, _activate_info
\* what a tool hands back: an error (an error string, or an InstallResult
\* with success=False), an empty list, or its proper result
Result(kind, msg) == [kind |-> kind, msg |-> msg]
NoResult_ == Result("none", "")
MsgNoVenvArg == "Error: Must provide either 'venv_path' or 'venv_name'"
MsgNoValidVenv == "Error: No valid venv found"
MsgNotValidVenv == "Error: does not appear to be a valid venv"
MsgNoRequirements == "Error: Requirements file not found"
MsgNothingToInstall == "Error: No packages or requirements file specified"
MsgInstallFailed == "Error: pip install failed"

VenvTools == {"install", "list_packages", "activate_info"}

\* requirements_file: not given, or naming a file that is or is not there
RequirementsFiles == {None, "present", "missing"}

\* what `pip install` can do
InstallOutcomes == {Exit(0, <<>>), Exit(1, <<>>), TimedOut, NotFound}

\* "Determine the target venv path": one of the two arguments is given
HasVenvArgAlways(venv_path, venv_name) == TRUE
HasVenvArg(venv_path, venv_name) == venv_path # None \/ venv_name # None

VtInit ==
    /\ \E tool \in VenvTools, venv_path \in TargetPaths, venv_name \in Names,
          target \in Targets, packages \in BOOLEAN,
          requirements_file \in RequirementsFiles :
         /\ tool # "install" => ~packages /\ requirements_file = None
         /\ vt = [tool |-> tool, pc |-> "target",
                  venv_path |-> venv_path, venv_name |-> venv_name,
                  before |-> target, target |-> target,
                  packages |-> packages,
                  requirements_file |-> requirements_file,
                  installed |-> FALSE, spawns |-> 0, errors |-> 0,
                  result |-> NoResult_]
    /\ FanOff
    /\ disc = Off
    /\ cmd = Off
    /\ del = Off
    /\ pk = Off /\ cl = Off /\ hc = Off /\ dk = Off

vtOthers == <<fanVars, disc, cmd, del, pk, cl, hc, dk>>

\* a return, and a return after ctx.error
VtReturn(kind, msg) == [vt EXCEPT !.pc = "returned", !.result = Result(kind, msg)]
VtError(kind, msg) ==
    [vt EXCEPT !.pc = "returned", !.errors = @ + 1, !.result = Result(kind, msg)]

\* "Determine the target venv path", the same in the three tools but for
\* what the else branch hands back
VtTarget ==
    /\ vt.pc = "target"
    /\ vt' = IF HasVenvArg(vt.venv_path, vt.venv_name)
             THEN [vt EXCEPT !.pc = "verify"]
             ELSE IF vt.tool = "list_packages"
             THEN VtError("empty", MsgNoVenvArg)
             ELSE VtReturn("error", MsgNoVenvArg)
    /\ UNCHANGED vtOthers

\* devenv_venv_install: "Verify venv exists" down to "Nothing to install?"
InstallVerify ==
    /\ vt.pc = "verify"
    /\ vt.tool = "install"
    /\ vt' = IF ~IsValidVenv(vt.target)
             THEN VtReturn("error", MsgNoValidVenv)
             ELSE IF vt.requirements_file = "missing"
             THEN VtReturn("error", MsgNoRequirements)
             ELSE IF ~vt.packages /\ vt.requirements_file = None
             THEN VtReturn("error", MsgNothingToInstall)
             ELSE [vt EXCEPT !.pc = "pip"]
    /\ UNCHANGED vtOthers

\* devenv_venv_install: "Run pip install" and the two returns after it
InstallRun ==
    /\ vt.pc = "pip"
    /\ vt.tool = "install"
    /\ \E os \in InstallOutcomes :
         LET result == RunCommand(os)
             ran == [vt EXCEPT !.spawns = @ + (IF os.kind = "notfound" THEN 0 ELSE 1)]
         IN  vt' = IF IsException(result)
                   THEN [ran EXCEPT !.pc = "raised"]
                   ELSE IF Success(result)
                   THEN [ran EXCEPT !.pc = "returned", !.installed = TRUE,
                                    !.result = Result("ok", "installed")]
                   ELSE [ran EXCEPT !.pc = "returned", !.errors = @ + 1,
                                    !.result = Result("error", MsgInstallFailed)]
    /\ UNCHANGED vtOthers

\* devenv_venv_list_packages: "Verify venv exists"
ListPackagesVerify ==
    /\ vt.pc = "verify"
    /\ vt.tool = "list_packages"
    /\ vt' = IF ~IsValidVenv(vt.target)
             THEN VtError("empty", MsgNoValidVenv)
             ELSE [vt EXCEPT !.pc = "pip"]
    /\ UNCHANGED vtOthers

\* devenv_venv_list_packages: "Run pip list" and "Parse JSON output"; a
\* JSON value that is not an array of objects makes the comprehension raise
ListPackagesRun ==
    /\ vt.pc = "pip"
    /\ vt.tool = "list_packages"
    /\ \E os \in PackageOutcomes :
         LET result == RunCommand(os)
             ran == [vt EXCEPT !.spawns = @ + (IF os.kind = "notfound" THEN 0 ELSE 1)]
             packages_data == JsonLoads(result.stdout)
         IN  vt' = IF IsException(result)
                   THEN [ran EXCEPT !.pc = "raised"]
                   ELSE IF ~Success(result)
                   THEN [ran EXCEPT !.pc = "returned", !.errors = @ + 1,
                                    !.result = Result("empty", "Failed to list packages")]
                   ELSE IF packages_data.kind = "error"
                   THEN [ran EXCEPT !.pc = "returned", !.errors = @ + 1,
                                    !.result = Result("empty", "Failed to parse pip output")]
                   ELSE IF packages_data.kind = "array"
                   THEN [ran EXCEPT !.pc = "returned",
                                    !.result = Result("ok", "packages")]
                   ELSE [ran EXCEPT !.pc = "raised"]
    /\ UNCHANGED vtOthers

\* devenv_venv_activate_info: "Verify venv exists" to the return
ActivateInfo ==
    /\ vt.pc = "verify"
    /\ vt.tool = "activate_info"
    /\ vt' = IF ~Exists(vt.target)
             THEN VtReturn("error", MsgNotFound)
             ELSE IF ~IsValidVenv(vt.target)
             THEN VtReturn("error", MsgNotValidVenv)
             ELSE VtReturn("ok", "activate command")
    /\ UNCHANGED vtOthers

VtNext ==
    \/ VtTarget
    \/ InstallVerify
    \/ InstallRun
    \/ ListPackagesVerify
    \/ ListPackagesRun
    \/ ActivateInfo

\* one call of one of the four tools that take a venv by name or by path
ToolsInit == DelInit \/ VtInit
ToolsNext == DelNext \/ VtNext
SpecVenvTools == ToolsInit /\ [][ToolsNext]_vars

\* ---------------------------------------------------- devenv_venv_create
\* the argument `name` and the path built from it
CreateName == "proj-a"
CreatePath(path) ==
    IF path = None THEN GlobalPath(CreateName) ELSE <<"work", CreateName>>

\* python_version of the two error descriptors
ErrorVersion == <<"E", "r", "r", "o", "r", ":">>

\* what `python -m venv` can do
VenvCommandOutcomes == {Exit(0, <<>>), Exit(1, <<>>), TimedOut}

\* "Build the venv creation command"
VenvCmd(with_pip) ==
    IF with_pip THEN <<"python", "-m", "venv", "target">>
    ELSE <<"python", "-m", "venv", "--without-pip", "target">>

\* "Check if venv already exists"
AlreadyExistsValidOnly(target) == IsValidVenv(target)
AlreadyExists(target) == Exists(target)

CreateInit ==
    /\ \E path \in TargetPaths, parent_exists \in BOOLEAN, target \in Targets,
          with_pip \in BOOLEAN :
         /\ ~parent_exists => target = Gone
         /\ vt = [tool |-> "create", pc |-> "parent", path |-> path,
                  with_pip |-> with_pip,
                  parent_exists |-> parent_exists,
                  before |-> target, target |-> target,
                  mkdirs |-> 0, warnings |-> 0, checks |-> 0,
                  venv_cmds |-> <<>>, spawns |-> 0, info |-> NoInfo]
    /\ FanOff
    /\ disc = Off
    /\ cmd = Off
    /\ del = Off
    /\ pk = Off /\ cl = Off /\ hc = Off /\ dk = Off

\* a return of devenv_venv_create
CreateReturn(info) == [vt EXCEPT !.pc = "returned", !.info = info]

\* "Ensure parent directory exists"
CreateParent ==
    /\ vt.pc = "parent"
    /\ vt' = IF ~vt.parent_exists
             THEN [vt EXCEPT !.pc = "existing", !.parent_exists = TRUE,
                             !.mkdirs = @ + 1]
             ELSE [vt EXCEPT !.pc = "existing"]
    /\ UNCHANGED vtOthers

\* "Check if venv already exists"
CreateExisting ==
    /\ vt.pc = "existing"
    /\ vt' = IF AlreadyExists(vt.target)
             THEN IF IsValidVenv(vt.target)
                  THEN [vt EXCEPT !.pc = "existing_info", !.warnings = @ + 1]
                  ELSE CreateReturn(VenvInfo(CreateName, PathStr(CreatePath(vt.path)),
                                             Unknown, 0, FALSE))
             ELSE [vt EXCEPT !.pc = "python"]
    /\ UNCHANGED vtOthers

\* `return await _get_venv_info(target_path)`, for the venv found and for
\* the venv made
CreateGetInfo ==
    /\ vt.pc \in {"existing_info", "info"}
    /\ \E vo \in VersionOutcomes, po \in PackageOutcomes :
         LET r == GetVenvInfo(CreatePath(vt.path), IsValidVenv(vt.target), vo, po)
         IN  vt' = [vt EXCEPT !.pc = IF r.raises THEN "raised" ELSE "returned",
                              !.info = r.info,
                              !.spawns = @ + r.spawns]
    /\ UNCHANGED vtOthers

\* "Check if the Python executable exists"
CreatePythonCheck ==
    /\ vt.pc = "python"
    /\ \E os \in VersionOutcomes :
         LET python_check == RunCommand(os)
             ran == [vt EXCEPT !.checks = @ + 1]
         IN  vt' = IF IsException(python_check)
                   THEN [ran EXCEPT !.pc = "raised"]
                   ELSE IF ~Success(python_check)
                   THEN [ran EXCEPT !.pc = "returned",
                                    !.info = VenvInfo(CreateName,
                                                      PathStr(CreatePath(vt.path)),
                                                      ErrorVersion, 0, FALSE)]
                   ELSE [ran EXCEPT !.pc = "venv"]
    /\ UNCHANGED vtOthers

\* "Create the venv": the command makes the venv, or fails and leaves
\* nothing or a part of it
CreateVenv ==
    /\ vt.pc = "venv"
    /\ \E os \in VenvCommandOutcomes :
         LET result == RunCommand(os)
             ran == [vt EXCEPT !.venv_cmds = Append(@, VenvCmd(vt.with_pip))]
         IN  IF ~IsException(result) /\ Success(result)
             THEN vt' = [ran EXCEPT !.pc = "info",
                                    !.target = Target("dir", TRUE, TRUE)]
             ELSE \E left \in {Gone, Target("dir", FALSE, TRUE)} :
                    vt' = IF IsException(result)
                          THEN [ran EXCEPT !.pc = "raised", !.target = left]
                          ELSE [ran EXCEPT !.pc = "returned", !.target = left,
                                           !.info = VenvInfo(CreateName,
                                                      PathStr(CreatePath(vt.path)),
                                                      ErrorVersion, 0, FALSE)]
    /\ UNCHANGED vtOthers

CreateNext ==
    \/ CreateParent
    \/ CreateExisting
    \/ CreateGetInfo
    \/ CreatePythonCheck
    \/ CreateVenv

SpecCreate == CreateInit /\ [][CreateNext]_vars

\* ------------------------------------------------------ devenv_port_kill
MaxConns == 2

\* `conn.pid` None and `conn.laddr` empty
NoPid == 0
NoPort == 0

\* the entries psutil.net_connections can hold: a local port (or no local
\* address) and the pid of the owner where it is known
Ports == {3000, 8080}
Pids == {41, 42}
Conn(port, pid) == [port |-> port, pid |-> pid]
Conns == {Conn(port, pid) : port \in Ports \cup {NoPort}, pid \in Pids \cup {NoPid}}
SocketTables == UNION {[1..n -> Conns] : n \in 0..MaxConns}

\* (pid, process_name)
Found(pid, name) == [pid |-> pid, name |-> name]

\* `for conn in psutil.net_connections(kind="inet")` from entry k on: the
\* first entry with the port ends the search, with or without a pid.
\* named: psutil.Process(conn.pid).name() gives a name (else "unknown")
RECURSIVE FindFrom(_, _, _, _)
FindFrom(conns, k, port, named) ==
    IF k > Len(conns) THEN Found(NoPid, "")
    ELSE IF conns[k].port # NoPort /\ conns[k].port = port
    THEN IF conns[k].pid # NoPid
         THEN Found(conns[k].pid, IF named THEN "python" ELSE "unknown")
         ELSE Found(NoPid, "unknown")
    ELSE FindFrom(conns, k + 1, port, named)

\* _find_process_by_port; denied: net_connections raises AccessDenied
FindProcessByPort(conns, port, denied, named) ==
    IF denied THEN Found(NoPid, "") ELSE FindFrom(conns, 1, port, named)

\* the signal of `if force: proc.kill() else: proc.terminate()`
SignalTerminateOnly(force) == "terminate"
Signal(force) == IF force THEN "kill" ELSE "terminate"

\* what happens from psutil.Process(pid) to the end of proc.wait
KillOutcomes ==
    {"gone", "NoSuchProcess", "AccessDenied", "OSError", "exited", "TimeoutExpired"}

MsgNoProcess == "No process found using port"
MsgOperationCancelled == "Operation cancelled"
MsgStillRunning == "sent SIGTERM but may still be running"
MsgKilled == "Successfully killed process"
MsgNoLonger == "no longer exists"
MsgAccessDenied == "Error: Access denied"
MsgKillFailed == "Error: Failed to kill process"

PkInit ==
    /\ \E table \in SocketTables, port \in Ports, force \in BOOLEAN :
         pk = [pc |-> "find", port |-> port, force |-> force, table |-> table,
               pid |-> NoPid, process_name |-> "", elicits |-> 0,
               response |-> NoResponse, signals |-> <<>>, result |-> ""]
    /\ FanOff
    /\ disc = Off
    /\ cmd = Off
    /\ del = Off
    /\ vt = Off /\ cl = Off /\ hc = Off /\ dk = Off

pkOthers == <<fanVars, disc, cmd, del, vt, cl, hc, dk>>

PkReturn(msg) == [pk EXCEPT !.pc = "returned", !.result = msg]

\* "Find the process using this port" and `if pid is None`
PkFind ==
    /\ pk.pc = "find"
    /\ \E denied \in BOOLEAN, named \in BOOLEAN :
         LET f == FindProcessByPort(pk.table, pk.port, denied, named)
             found == [pk EXCEPT !.pid = f.pid, !.process_name = f.name]
         IN  pk' = IF f.pid = NoPid
                   THEN [found EXCEPT !.pc = "returned", !.result = MsgNoProcess]
                   ELSE [found EXCEPT !.pc = "elicit"]
    /\ UNCHANGED pkOthers

\* "Request confirmation": the client answers
PkElicit ==
    /\ pk.pc = "elicit"
    /\ \E response \in Responses :
         pk' = [pk EXCEPT !.pc = "response", !.elicits = @ + 1,
                          !.response = response]
    /\ UNCHANGED pkOthers

\* the request for confirmation fails
PkElicitRaises ==
    /\ pk.pc = "elicit"
    /\ pk' = [pk EXCEPT !.pc = "raised", !.elicits = @ + 1]
    /\ UNCHANGED pkOthers

\* the check of the answer
PkResponse ==
    /\ pk.pc = "response"
    /\ pk' = IF Confirmed(pk.response)
             THEN [pk EXCEPT !.pc = "kill"]
             ELSE PkReturn(MsgOperationCancelled)
    /\ UNCHANGED pkOthers

\* "Kill the process": psutil.Process(pid) raises for a process that is
\* gone; otherwise one signal is sent, which may itself fail, and the
\* process is waited for
PkKill ==
    /\ pk.pc = "kill"
    /\ \E outcome \in KillOutcomes :
         LET sent == [pk EXCEPT !.signals = Append(@, Signal(pk.force))]
         IN  pk' =
               CASE outcome = "gone" -> PkReturn(MsgNoLonger)
                 [] outcome = "NoSuchProcess" ->
                      [sent EXCEPT !.pc = "returned", !.result = MsgNoLonger]
                 [] outcome = "AccessDenied" ->
                      [sent EXCEPT !.pc = "returned", !.result = MsgAccessDenied]
                 [] outcome = "OSError" ->
                      [sent EXCEPT !.pc = "returned", !.result = MsgKillFailed]
                 [] outcome = "TimeoutExpired" /\ ~pk.force ->
                      [sent EXCEPT !.pc = "returned", !.result = MsgStillRunning]
                 [] OTHER ->
                      [sent EXCEPT !.pc = "returned", !.result = MsgKilled]
    /\ UNCHANGED pkOthers

PkNext ==
    \/ PkFind
    \/ PkElicit
    \/ PkElicitRaises
    \/ PkResponse
    \/ PkKill

SpecPortKill == PkInit /\ [][PkNext]_vars

\* --------------------------------------------------- devenv_health_check
DISK_WARNING_PERCENT == 80
DISK_CRITICAL_PERCENT == 95
MEMORY_WARNING_PERCENT == 85
MEMORY_CRITICAL_PERCENT == 95

\* usage in percent at and around the thresholds; Unreadable stands for
\* a psutil call that raises
Unreadable == -1
Percents == {Unreadable, 0, 79, 80, 84, 85, 94, 95, 100}

\* what the Docker check meets: no client, a client whose ping or info
\* raises, a client that answers
DockerChecks == {"unavailable", "ping_raises", "info_raises", "running"}

ComponentHealth(name, status, message) ==
    [name |-> name, status |-> status, message |-> message]

\* a message: its fixed text and the percentage it quotes
Message(text, percent) == [text |-> text, percent |-> percent]

\* the status and the message of the Docker component
DockerStatus(docker) == IF docker = "running" THEN "healthy" ELSE "unhealthy"
DockerMessage(docker) ==
    CASE docker = "running" -> Message("Docker is running", 0)
      [] docker = "unavailable" -> Message("Docker is not available", 0)
      [] OTHER -> Message("Docker error", 0)

\* the status of the disk and of the memory component
UsageStatus(percent, warning, critical) ==
    IF percent = Unreadable THEN "unknown"
    ELSE IF percent >= critical THEN "unhealthy"
    ELSE IF percent >= warning THEN "degraded"
    ELSE "healthy"
UsageMessage(percent, warning, critical) ==
    IF percent = Unreadable THEN Message("Could not check", 0)
    ELSE IF percent >= critical THEN Message("Critical", percent)
    ELSE IF percent >= warning THEN Message("Warning", percent)
    ELSE Message("", percent)

\* "Determine overall status"
OverallUnknownIsHealthy(statuses) ==
    IF \E k \in 1..Len(statuses) : statuses[k] = "unhealthy" THEN "unhealthy"
    ELSE IF \E k \in 1..Len(statuses) : statuses[k] = "degraded" THEN "degraded"
    ELSE "healthy"
Overall(statuses) ==
    IF \E k \in 1..Len(statuses) : statuses[k] = "unhealthy" THEN "unhealthy"
    ELSE IF \E k \in 1..Len(statuses) : statuses[k] = "degraded" THEN "degraded"
    ELSE IF \E k \in 1..Len(statuses) : statuses[k] = "unknown" THEN "degraded"
    ELSE "healthy"

\* "Build summary": the count of healthy components, the number of
\* components, whether the " - issues: " part is there and the names in it
Summary(components, overall) ==
    LET healthy == SelectSeq(components, LAMBDA c : c.status = "healthy")
        unhealthy == SelectSeq(components,
                               LAMBDA c : c.status \in {"unhealthy", "degraded"})
    IN  [healthy_count |-> Len(healthy),
         total |-> Len(components),
         with_issues |-> overall # "healthy",
         issues |-> IF overall # "healthy"
                    THEN [k \in 1..Len(unhealthy) |-> unhealthy[k].name]
                    ELSE <<>>]

NoSummary == [healthy_count |-> 0, total |-> 0, with_issues |-> FALSE, issues |-> <<>>]

HcInit ==
    /\ hc = [pc |-> "docker", components |-> <<>>, overall_status |-> "",
             summary |-> NoSummary]
    /\ FanOff
    /\ disc = Off
    /\ cmd = Off
    /\ del = Off
    /\ vt = Off /\ pk = Off /\ cl = Off /\ dk = Off

hcOthers == <<fanVars, disc, cmd, del, vt, pk, cl, dk>>

\* "Check Docker"
HcDocker ==
    /\ hc.pc = "docker"
    /\ \E docker \in DockerChecks :
         hc' = [hc EXCEPT !.pc = "disk",
                          !.components =
                              Append(@, ComponentHealth("Docker", DockerStatus(docker),
                                                        DockerMessage(docker)))]
    /\ UNCHANGED hcOthers

\* "Check disk space"
HcDisk ==
    /\ hc.pc = "disk"
    /\ \E percent \in Percents :
         hc' = [hc EXCEPT !.pc = "memory",
                          !.components =
                              Append(@, ComponentHealth("Disk Space",
                                          UsageStatus(percent, DISK_WARNING_PERCENT,
                                                      DISK_CRITICAL_PERCENT),
                                          UsageMessage(percent, DISK_WARNING_PERCENT,
                                                       DISK_CRITICAL_PERCENT)))]
    /\ UNCHANGED hcOthers

\* "Check memory"
HcMemory ==
    /\ hc.pc = "memory"
    /\ \E percent \in Percents :
         hc' = [hc EXCEPT !.pc = "report",
                          !.components =
                              Append(@, ComponentHealth("Memory",
                                          UsageStatus(percent, MEMORY_WARNING_PERCENT,
                                                      MEMORY_CRITICAL_PERCENT),
                                          UsageMessage(percent, MEMORY_WARNING_PERCENT,
                                                       MEMORY_CRITICAL_PERCENT)))]
    /\ UNCHANGED hcOthers

\* "Determine overall status", "Build summary" and the return
HcReport ==
    /\ hc.pc = "report"
    /\ LET statuses == [k \in 1..Len(hc.components) |-> hc.components[k].status]
           overall == Overall(statuses)
       IN  hc' = [hc EXCEPT !.pc = "returned",
                            !.overall_status = overall,
                            !.summary = Summary(hc.components, overall)]
    /\ UNCHANGED hcOthers

HcNext ==
    \/ HcDocker
    \/ HcDisk
    \/ HcMemory
    \/ HcReport

SpecHealth == HcInit /\ [][HcNext]_vars

\* -------------------------------------------------------- devenv_cleanup
BytesPerMb == 1048576

\* the prune steps in the order of the code
PruneOrderVolumesFirst == <<"volumes", "containers", "images", "networks">>
PruneOrder == <<"containers", "images", "networks", "volumes">>
PruneKinds == {"containers", "images", "networks", "volumes"}

\* the four flags prune_containers, prune_images, prune_networks,
\* prune_volumes
PruneFlags == [PruneKinds -> BOOLEAN]

\* `if prune_<kind>:` before each step
ShouldPruneAlways(flags, kind) == TRUE
ShouldPrune(flags, kind) == flags[kind]

\* "Build confirmation message": the actions listed
Actions(flags) == SelectSeq(PruneOrder, LAMBDA kind : flags[kind])

\* what one prune call gives: it raises, or it answers with the deleted
\* items (null for none) and the bytes reclaimed
PruneAnswer(raises, deleted, space) ==
    [raises |-> raises, deleted |-> deleted, space |-> space]
PruneAnswers ==
    {PruneAnswer(TRUE, 0, 0), PruneAnswer(FALSE, 0, 0),
     PruneAnswer(FALSE, 2, 3 * BytesPerMb)}

\* networks.prune reports no space
SpaceOf(kind, answer) == IF kind = "networks" THEN 0 ELSE answer.space

CleanupResult(success, space_reclaimed_mb, items_removed, message) ==
    [success |-> success, space_reclaimed_mb |-> space_reclaimed_mb,
     items_removed |-> items_removed, message |-> message]
NoCleanupResult == CleanupResult(FALSE, 0, <<>>, "")

MsgDockerNotAvailable == "Docker not available"
MsgNothingToClean == "Nothing to clean up (all options disabled)"
MsgCleanupCancelled == "Cleanup cancelled"
MsgPartiallyFailed == "Cleanup partially failed"
MsgCleanupComplete == "Cleanup complete"

ClInit ==
    /\ \E flags \in PruneFlags, docker_available \in BOOLEAN :
         cl = [pc |-> "docker", flags |-> flags,
               docker_available |-> docker_available,
               elicits |-> 0, response |-> NoResponse,
               step |-> 1, pruned |-> <<>>, items_removed |-> <<>>,
               space_reclaimed |-> 0, errors |-> 0,
               result |-> NoCleanupResult]
    /\ FanOff
    /\ disc = Off
    /\ cmd = Off
    /\ del = Off
    /\ vt = Off /\ pk = Off /\ hc = Off /\ dk = Off

clOthers == <<fanVars, disc, cmd, del, vt, pk, hc, dk>>

ClReturn(result) == [cl EXCEPT !.pc = "returned", !.result = result]

\* "Check Docker availability"
ClDocker ==
    /\ cl.pc = "docker"
    /\ cl' = IF cl.docker_available
             THEN [cl EXCEPT !.pc = "actions"]
             ELSE ClReturn(CleanupResult(FALSE, 0, <<>>, MsgDockerNotAvailable))
    /\ UNCHANGED clOthers

\* "Build confirmation message" and `if not actions`
ClActions ==
    /\ cl.pc = "actions"
    /\ cl' = IF Actions(cl.flags) = <<>>
             THEN ClReturn(CleanupResult(TRUE, 0, <<>>, MsgNothingToClean))
             ELSE [cl EXCEPT !.pc = "elicit"]
    /\ UNCHANGED clOthers

\* "Request confirmation": the client answers
ClElicit ==
    /\ cl.pc = "elicit"
    /\ \E response \in Responses :
         cl' = [cl EXCEPT !.pc = "response", !.elicits = @ + 1,
                          !.response = response]
    /\ UNCHANGED clOthers

\* the request for confirmation fails
ClElicitRaises ==
    /\ cl.pc = "elicit"
    /\ cl' = [cl EXCEPT !.pc = "raised", !.elicits = @ + 1]
    /\ UNCHANGED clOthers

\* the check of the answer
ClResponse ==
    /\ cl.pc = "response"
    /\ cl' = IF Confirmed(cl.response)
             THEN [cl EXCEPT !.pc = "prune"]
             ELSE ClReturn(CleanupResult(FALSE, 0, <<>>, MsgCleanupCancelled))
    /\ UNCHANGED clOthers

\* one of "Prune containers", "Prune images", "Prune networks", "Prune
\* volumes": skipped without its flag; a raise goes to the except branch
ClPrune ==
    /\ cl.pc = "prune"
    /\ cl.step <= Len(PruneOrder)
    /\ LET kind == PruneOrder[cl.step]
       IN  IF ~ShouldPrune(cl.flags, kind)
           THEN cl' = [cl EXCEPT !.step = @ + 1]
           ELSE \E answer \in PruneAnswers :
                  LET called == [cl EXCEPT !.pruned = Append(@, kind)]
                  IN  cl' =
                        IF answer.raises
                        THEN [called EXCEPT
                                !.pc = "returned",
                                !.errors = @ + 1,
                                !.result =
                                    CleanupResult(FALSE,
                                                  cl.space_reclaimed \div BytesPerMb,
                                                  cl.items_removed,
                                                  MsgPartiallyFailed)]
                        ELSE [called EXCEPT
                                !.step = @ + 1,
                                !.items_removed =
                                    Append(@, [kind |-> kind,
                                               count |-> answer.deleted]),
                                !.space_reclaimed = @ + SpaceOf(kind, answer)]
    /\ UNCHANGED clOthers

\* the return after the last step
ClComplete ==
    /\ cl.pc = "prune"
    /\ cl.step > Len(PruneOrder)
    /\ cl' = ClReturn(CleanupResult(TRUE, cl.space_reclaimed \div BytesPerMb,
                                    cl.items_removed, MsgCleanupComplete))
    /\ UNCHANGED clOthers

ClNext ==
    \/ ClDocker
    \/ ClActions
    \/ ClElicit
    \/ ClElicitRaises
    \/ ClResponse
    \/ ClPrune
    \/ ClComplete

SpecCleanup == ClInit /\ [][ClNext]_vars

\* --------------------------------------------------- DockerClientWrapper
MaxCalls == 4

\* `self._client` None; the clients docker.from_env() makes are numbered
\* in the order they are made
NoClient == 0

\* what a connect() meets: from_env raises, ping or version raises on the
\* new client (a DockerException or another exception), or all succeed
ConnectOutcomes ==
    {"from_env_raises", "ping_raises", "version_raises", "unexpected", "connected"}

\* __init__
NewWrapper ==
    [_client |-> NoClient, _is_available |-> FALSE, _unavailable_reason |-> "None"]

\* the property `client`, which require_docker returns: the client, or
\* NoClient for raising DockerUnavailableError
ClientOf(w) ==
    IF ~w._is_available \/ w._client = NoClient THEN NoClient ELSE w._client

\* connect(), given the client from_env would make
Connect(w, outcome, fresh) ==
    CASE outcome = "from_env_raises" ->
           [w EXCEPT !._is_available = FALSE, !._unavailable_reason = "DockerException"]
      [] outcome \in {"ping_raises", "version_raises"} ->
           [w EXCEPT !._client = fresh, !._is_available = FALSE,
                     !._unavailable_reason = "DockerException"]
      [] outcome = "unexpected" ->
           [w EXCEPT !._client = fresh, !._is_available = FALSE,
                     !._unavailable_reason = "Unexpected error connecting to Docker"]
      [] OTHER ->
           [w EXCEPT !._client = fresh, !._is_available = TRUE,
                     !._unavailable_reason = "None"]

\* close(): with or without an error of client.close(), the finally block
CloseKeepsAvailable(w) ==
    IF w._client # NoClient THEN [w EXCEPT !._client = NoClient] ELSE w
Close(w) ==
    IF w._client # NoClient
    THEN [w EXCEPT !._client = NoClient, !._is_available = FALSE]
    ELSE w

DkInit ==
    /\ dk = [pc |-> "ready", w |-> NewWrapper, calls |-> 0, made |-> 0,
             last |-> "init", newest |-> NoClient,
             required |-> 0, got |-> NoClient]
    /\ FanOff
    /\ disc = Off
    /\ cmd = Off
    /\ del = Off
    /\ vt = Off /\ pk = Off /\ cl = Off /\ hc = Off

dkOthers == <<fanVars, disc, cmd, del, vt, pk, cl, hc>>

\* a connect() call; from_env makes a new client unless it raises
DkConnect ==
    /\ dk.pc = "ready"
    /\ dk.calls < MaxCalls
    /\ \E outcome \in ConnectOutcomes :
         LET made == IF outcome = "from_env_raises" THEN dk.made ELSE dk.made + 1
         IN  dk' = [dk EXCEPT !.w = Connect(@, outcome, made),
                              !.calls = @ + 1,
                              !.made = made,
                              !.last = IF outcome = "connected"
                                       THEN "connected" ELSE "failed",
                              !.newest = made]
    /\ UNCHANGED dkOthers

\* a close() call
DkClose ==
    /\ dk.pc = "ready"
    /\ dk.calls < MaxCalls
    /\ dk' = [dk EXCEPT !.w = Close(@), !.calls = @ + 1, !.last = "closed"]
    /\ UNCHANGED dkOthers

\* a require_docker() call, as the tools make it between the two
DkRequire ==
    /\ dk.pc = "ready"
    /\ dk.required < dk.calls + 1
    /\ dk' = [dk EXCEPT !.required = dk.calls + 1, !.got = ClientOf(dk.w)]
    /\ UNCHANGED dkOthers

DkNext ==
    \/ DkConnect
    \/ DkClose
    \/ DkRequire

SpecDocker == DkInit /\ [][DkNext]_vars

\* =================================================================
\* Properties
\* =================================================================
\* the call for path i found no interpreter
Missing(i) == tasks[i].pc # "new" /\ ~tasks[i].exists
\* the call for path i found the interpreter
Probed(i) == tasks[i].pc # "new" /\ tasks[i].exists
\* the call for path i returned a descriptor
Done(i) == tasks[i].pc = "done"
\* a probe that did not succeed: it raised or exited non-zero
ProbeFailed(r) == r.type = "exc" \/ (r.type = "result" /\ r.returncode # 0)
\* the result of a version probe that printed "Python 3.11.5" and exited 0
WorkingVersion == CommandResult(0, Strip(OutPython311))
\* the version text "3.11.5"
Version311 == <<"3", ".", "1", "1", ".", "5">>
\* the descriptor a call for path i alone computes from its own probes
AloneInfo(i) ==
    IF ~tasks[i].exists
    THEN VenvInfo(PathName(venv_paths[i]), PathStr(venv_paths[i]), Unknown, 0, FALSE)
    ELSE VenvInfo(PathName(venv_paths[i]), PathStr(venv_paths[i]),
                  ParseVersion(tasks[i].version_result),
                  ParsePackages(tasks[i].packages_result).count,
                  IsValid(tasks[i].version_result, tasks[i].packages_result,
                          ParseVersion(tasks[i].version_result)))

\* C1: a call that finds no interpreter spawns no subprocess and returns
\* python_version "unknown", packages_count 0, is_valid false.
C1_MissingInterpreterNoSpawn ==
    \A i \in DOMAIN tasks :
        Missing(i) =>
            /\ tasks[i].spawned = 0
            /\ tasks[i].version_result = Pending
            /\ tasks[i].packages_result = Pending
            /\ Done(i)
            /\ tasks[i].info.python_version = Unknown
            /\ tasks[i].info.packages_count = 0
            /\ tasks[i].info.is_valid = FALSE

\* a missing interpreter beside a path whose two probes were spawned
C1_Witness ==
    \E i, j \in DOMAIN tasks :
        /\ Missing(i) /\ Done(i)
        /\ Probed(j) /\ tasks[j].spawned = 2

\* C2: no exception escapes _get_venv_info, whatever the two probes do,
\* package output that is JSON but no array included.
C2_NoExceptionEscapes ==
    \A i \in DOMAIN tasks : tasks[i].pc # "raised"

\* C3: the returned list has one descriptor per input path and its i-th
\* element describes the i-th path, in whatever order the calls finished.
C3_OrderPreserved ==
    listPc = "returned" =>
        /\ Len(venv_infos) = Len(venv_paths)
        /\ \A i \in 1..Len(venv_paths) :
              /\ venv_infos[i].path = PathStr(venv_paths[i])
              /\ venv_infos[i].name = PathName(venv_paths[i])

\* a list returned after the calls finished in another order than the input
C3_Witness ==
    /\ listPc = "returned"
    /\ Len(venv_paths) >= 2
    /\ order[1] # 1
    /\ \A i \in DOMAIN tasks : Probed(i)

\* C4: a call that raises does not make devenv_venv_list fail.
C4_ListNeverFails ==
    listPc # "raised"

C6_ValidImpliesKnownVersion ==
    /\ \A i \in DOMAIN tasks :
          Done(i) => (tasks[i].info.is_valid => tasks[i].info.python_version # Unknown)
    /\ \A k \in DOMAIN venv_infos :
          venv_infos[k].is_valid => venv_infos[k].python_version # Unknown

\* a version probe that exits 0 and prints "Python unknown"
C6_Witness ==
    \E i \in DOMAIN tasks :
        /\ Done(i)
        /\ tasks[i].version_result = CommandResult(0, PythonPrefix \o Unknown)
        /\ ~tasks[i].info.is_valid

C8_ProbeFailureNeverAborts ==
    \A i \in DOMAIN tasks :
        /\ (Done(i) /\ Probed(i)) =>
              /\ tasks[i].version_result # Pending
              /\ tasks[i].packages_result # Pending
              /\ tasks[i].spawned = 2
              /\ tasks[i].info.python_version = ParseVersion(tasks[i].version_result)
              /\ tasks[i].info.packages_count =
                     ParsePackages(tasks[i].packages_result).count
        /\ tasks[i].pc = "raised" =>
              /\ tasks[i].packages_result.type = "result"
              /\ Success(tasks[i].packages_result)

\* each probe has failed beside a sibling whose result was used
C8_Witness ==
    \E i, j \in DOMAIN tasks :
        /\ Done(i) /\ Done(j)
        /\ IsException(tasks[i].version_result)
        /\ tasks[i].info.packages_count = 2
        /\ IsException(tasks[j].packages_result)
        /\ tasks[j].info.python_version = Version311

\* C9: a version probe that times out or fails beside a package probe that
\* prints an array of two entries gives python_version "unknown", is_valid
\* false and packages_count 2.
C9_VersionFailsPackagesCounted ==
    \A i \in DOMAIN tasks :
        (/\ Done(i) /\ Probed(i)
         /\ ProbeFailed(tasks[i].version_result)
         /\ tasks[i].packages_result = CommandResult(0, OutPipTwo))
        => /\ tasks[i].info.python_version = Unknown
           /\ tasks[i].info.is_valid = FALSE
           /\ tasks[i].info.packages_count = 2

\* the version probe timed out and the two packages were counted
C9_Witness ==
    \E i \in DOMAIN tasks :
        /\ Done(i)
        /\ tasks[i].version_result = Raised("TimeoutError")
        /\ tasks[i].packages_result = CommandResult(0, OutPipTwo)
        /\ tasks[i].info.packages_count = 2

\* C10: with a working interpreter, a package probe that fails or prints
\* anything but a JSON array gives packages_count 0 and is_valid true.
C10_MalformedPackagesCountZero ==
    \A i \in DOMAIN tasks :
        (/\ tasks[i].pc \in {"done", "raised"}
         /\ tasks[i].version_result = WorkingVersion
         /\ \/ ProbeFailed(tasks[i].packages_result)
            \/ tasks[i].packages_result.stdout
                   \in {OutPipNotJson, OutPipObject, OutPipNull})
        => /\ Done(i)
           /\ tasks[i].info.packages_count = 0
           /\ tasks[i].info.is_valid = TRUE


\* the probes of call i that have been started
Started(i) ==
    (IF tasks[i].version_result # Pending THEN 1 ELSE 0)
    + (IF tasks[i].packages_result # Pending THEN 1 ELSE 0)

\* C11: a probe that exceeds its timeout has its subprocess terminated,
\* the sibling probe is not cancelled and the descriptor is still computed.
C11_TimedOutProcessTerminated ==
    \A i \in DOMAIN tasks :
        (\/ tasks[i].version_result = Raised("TimeoutError")
         \/ tasks[i].packages_result = Raised("TimeoutError"))
        => /\ tasks[i].running = 0
           /\ tasks[i].pc \in {"done", "raised"} =>
                 /\ tasks[i].version_result # Pending
                 /\ tasks[i].packages_result # Pending

\* C12: a failed or timed-out probe is never retried: each probe of a call
\* is started at most once, so a path has at most two subprocesses spawned.
C12_NoRetry ==
    \A i \in DOMAIN tasks :
        /\ tasks[i].spawned = Started(i)
        /\ tasks[i].spawned <= 2

\* a call that returned after both of its probes failed, spawned twice
C12_Witness ==
    \E i \in DOMAIN tasks :
        /\ Done(i)
        /\ tasks[i].version_result = Raised("TimeoutError")
        /\ ProbeFailed(tasks[i].packages_result)
        /\ tasks[i].spawned = 2

C19_NonZeroExitReturned ==
    cmd.pc \in {"returned", "raised"} =>
        /\ (~cmd.check /\ cmd.os.kind = "exit") =>
              /\ cmd.pc = "returned"
              /\ cmd.result.returncode = cmd.code
              /\ cmd.result.stdout = Strip(cmd.out)
              /\ cmd.result.stderr = Strip(cmd.err)
        /\ (~cmd.check /\ cmd.os.kind = "notfound") =>
              /\ cmd.pc = "returned"
              /\ cmd.result.returncode = 127
        /\ cmd.os.kind = "timeout" =>
              /\ cmd.pc = "raised"
              /\ cmd.exc = "TimeoutError"
              /\ cmd.result = NoResult
        /\ (~cmd.check /\ cmd.pc = "raised") =>
              cmd.exc \in {"TimeoutError", "PermissionError"}

\* a non-zero exit returned with its output under check=False
C19_Witness ==
    /\ cmd.pc = "returned"
    /\ ~cmd.check
    /\ cmd.result = FullResult(2, <<"o", "k">>, <<"E", "r", "r", "o", "r">>)

\* the places _discover_venvs looks at, in the order it looks at them
Places ==
    <<LocalPath("venv"), LocalPath(".venv")>>
    \o [k \in 1..Len(disc.listing) |-> GlobalPath(disc.listing[k].name)]

\* the directory entry at a place
EntryAt(p) ==
    IF p = LocalPath("venv") THEN disc.local[1]
    ELSE IF p = LocalPath(".venv") THEN disc.local[2]
    ELSE disc.listing[CHOOSE k \in 1..Len(disc.listing) :
                          GlobalPath(disc.listing[k].name) = p].entry

IsLocalPlace(p) == p \in {LocalPath("venv"), LocalPath(".venv")}

\* where a path stands among the places
PlaceOf(p) == CHOOSE k \in 1..Len(Places) : Places[k] = p

\* the elements of a sequence
Range(seq) == {seq[k] : k \in 1..Len(seq)}

\* the names each pattern of the pool matches, by glob semantics
GlobMatches(text) ==
    CASE text = <<"p", "r", "o", "j", "-", "*">> -> {"proj-a", "proj-b"}
      [] text = <<"*", "e", "n", "v">> -> {"venv", ".venv"}
      [] text = <<"[", "p", "o", "]", "*">> -> {"proj-a", "proj-b", "other"}
      [] text = <<"?", "t", "h", "e", "r">> -> {"other"}
      [] text = <<"v", "e", "n", "v">> -> {"venv"}
      [] text = <<"*">> -> {"venv", ".venv"} \cup ChildNames
      [] OTHER -> {}

\* the validated candidates: local directories with an interpreter and,
\* when asked for, the registry's directories with an interpreter
Validated ==
    {p \in Range(Places) :
        /\ EntryAt(p).kind = "dir"
        /\ EntryAt(p).python
        /\ IsLocalPlace(p) \/ disc.include_global}

\* C15: the returned list holds local candidates first, venv before .venv,
\* then registry candidates in listing order; a name pattern keeps the
\* relative order of the survivors.
C15_DiscoveryOrder ==
    disc.pc = "returned" =>
        /\ \A k \in 1..Len(disc.discovered) : disc.discovered[k] \in Range(Places)
        /\ \A a, b \in 1..Len(disc.discovered) :
              a < b => PlaceOf(disc.discovered[a]) < PlaceOf(disc.discovered[b])

\* both local venvs and two registry venvs, listed other before proj-a,
\* returned through a pattern that keeps them all
C15_Witness ==
    /\ disc.pc = "returned"
    /\ disc.name_pattern = Pattern(<<"*">>)
    /\ disc.discovered = <<LocalPath("venv"), LocalPath(".venv"),
                           GlobalPath("other"), GlobalPath("proj-a")>>

\* C16: every returned path is a directory the validator accepts and is
\* working_dir/venv, working_dir/.venv or, only with include_global and an
\* existing registry directory, an entry of the registry.
C16_OnlyValidatedCandidates ==
    disc.pc = "returned" =>
        \A k \in 1..Len(disc.discovered) :
            LET p == disc.discovered[k]
            IN  /\ p \in Range(Places)
                /\ EntryAt(p).kind = "dir"
                /\ EntryAt(p).python
                /\ \/ IsLocalPlace(p)
                   \/ /\ disc.include_global
                      /\ disc.registry.kind = "dir"
                      /\ \E j \in 1..Len(disc.listing) :
                            p = GlobalPath(disc.listing[j].name)

\* a registry venv returned beside a registry directory without interpreter
C16_Witness ==
    /\ disc.pc = "returned"
    /\ disc.include_global
    /\ Len(disc.listing) = 2
    /\ disc.listing[1].entry = Entry("dir", FALSE)
    /\ disc.listing[2].entry = Entry("dir", TRUE)
    /\ disc.local[1] = Entry("dir", FALSE)
    /\ disc.discovered = <<GlobalPath(disc.listing[2].name)>>

C18_MissingLocationNoError ==
    /\ disc.pc = "raised" => Exists(disc.registry)
    /\ disc.pc = "returned" =>
          /\ ~disc.work_exists =>
                \A k \in 1..Len(disc.discovered) : ~IsLocalPlace(disc.discovered[k])
          /\ ~Exists(disc.registry) =>
                \A k \in 1..Len(disc.discovered) : IsLocalPlace(disc.discovered[k])

\* neither the working directory nor the registry exists: an empty list
C18_Witness ==
    /\ disc.pc = "returned"
    /\ ~disc.work_exists
    /\ ~Exists(disc.registry)
    /\ disc.include_global
    /\ disc.discovered = <<>>

\* ------------------------------------------------------------------ C20
\* C20: devenv_venv_delete removes the target directory only after the
\* confirmation has come back as "accept" with confirm = true; after any
\* other answer (cancel, decline, no data, confirm = false) it returns
\* "Deletion cancelled" and the directory is as it was.
C20_DeleteOnlyAfterConfirm ==
    /\ del.target # del.before =>
         del.elicits = 1 /\ del.response = Response("accept", TRUE, TRUE)
    /\ (del.pc = "returned" /\ del.elicits = 1
        /\ del.response # Response("accept", TRUE, TRUE)) =>
         /\ del.result = MsgCancelled
         /\ del.target = del.before
         /\ Exists(del.target)

\* an accepted and confirmed deletion has removed an existing venv
C20_Witness ==
    /\ del.pc = "returned"
    /\ del.response = Response("accept", TRUE, TRUE)
    /\ Exists(del.before)
    /\ del.target = Gone
    /\ del.result = MsgDeleted

\* ------------------------------------------------------------------ C21
\* C21: a target that exists, fails the validator and holds none of
\* pyvenv.cfg, Scripts, bin is never deleted: the tool returns the "does
\* not appear to be a virtual environment" error, asks for no
\* confirmation and leaves the directory as it was.
C21_NonVenvNeverDeleted ==
    (HasTarget(del.name, del.path) /\ Exists(del.before)
     /\ ~del.before.python /\ ~del.before.markers) =>
        /\ del.target = del.before
        /\ del.elicits = 0
        /\ del.spawns = 0
        /\ del.pc \in {"target", "exists", "safety", "returned"}
        /\ del.pc = "returned" => del.result = MsgNotVenv

\* a plain directory named by path, refused
C21_Witness ==
    /\ del.pc = "returned"
    /\ del.path # None
    /\ del.before = Target("dir", FALSE, FALSE)
    /\ del.target = del.before
    /\ del.result = MsgNotVenv

\* ------------------------------------------------------------------ C22
\* C22: a venv tool called with neither identifying argument reports an
\* error (delete, install and activate_info hand the error back,
\* list_packages sends it with ctx.error and hands back an empty list) and
\* runs no probe, spawns no subprocess, asks for no confirmation and
\* changes nothing on disk.
C22_MissingArgumentsNoEffect ==
    /\ (del.pc # "off" /\ del.name = None /\ del.path = None) =>
          /\ del.pc \in {"target", "returned"}
          /\ del.target = del.before
          /\ del.spawns = 0
          /\ del.elicits = 0
          /\ del.info = NoInfo
          /\ del.pc = "returned" => del.result = MsgNoTarget
    /\ (vt.pc # "off" /\ vt.venv_path = None /\ vt.venv_name = None) =>
          /\ vt.pc \in {"target", "returned"}
          /\ vt.target = vt.before
          /\ ~vt.installed
          /\ vt.spawns = 0
          /\ vt.pc = "returned" =>
                /\ vt.result.msg = MsgNoVenvArg
                /\ IF vt.tool = "list_packages"
                   THEN vt.result.kind = "empty" /\ vt.errors = 1
                   ELSE vt.result.kind = "error"

\* install asked to put packages into a working venv it was not told of
C22_Witness ==
    /\ vt.pc = "returned"
    /\ vt.tool = "install"
    /\ vt.venv_path = None
    /\ vt.venv_name = None
    /\ vt.packages
    /\ vt.before = Target("dir", TRUE, TRUE)
    /\ vt.result = Result("error", MsgNoVenvArg)

\* ------------------------------------------------------------------ C23
\* C23: when the target path already exists devenv_venv_create never runs
\* the venv creation command and leaves the target as it was: a valid venv
\* is answered with one warning and the descriptor of that venv, anything
\* else with the invalid descriptor and no probe.
C23_ExistingNeverRecreated ==
    Exists(vt.before) =>
        /\ vt.venv_cmds = <<>>
        /\ vt.checks = 0
        /\ vt.target = vt.before
        /\ vt.pc = "returned" =>
              /\ vt.info.name = CreateName
              /\ vt.info.path = PathStr(CreatePath(vt.path))
              /\ IF vt.before.python
                 THEN vt.warnings = 1
                 ELSE /\ vt.warnings = 0
                      /\ vt.spawns = 0
                      /\ vt.info.python_version = Unknown
                      /\ vt.info.packages_count = 0
                      /\ ~vt.info.is_valid

\* an existing working venv handed back with its version
C23_Witness ==
    /\ vt.pc = "returned"
    /\ vt.before = Target("dir", TRUE, TRUE)
    /\ vt.warnings = 1
    /\ vt.info.is_valid
    /\ vt.info.python_version = Version311
    /\ vt.venv_cmds = <<>>

\* ------------------------------------------------------------------ C24
\* C24 as stated: no signal without an accepted, confirmed answer, and
\* exactly one signal, kill under force and terminate otherwise, once the
\* answer is accepted and confirmed.
C24_ExactlyOneSignal ==
    /\ pk.signals # <<>> => pk.response = Response("accept", TRUE, TRUE)
    /\ (pk.pc = "returned" /\ pk.response = Response("accept", TRUE, TRUE)) =>
          pk.signals = <<IF pk.force THEN "kill" ELSE "terminate">>

\* C24 amended: no signal is sent without an accepted, confirmed answer;
\* after one, at most one signal is sent, kill under force and terminate
\* otherwise, and exactly one unless the process was gone when the tool
\* looked it up again, which it reports as "no longer exists".
C24_AtMostOneSignal ==
    /\ pk.signals # <<>> =>
          pk.elicits = 1 /\ pk.response = Response("accept", TRUE, TRUE)
    /\ pk.signals \in {<<>>, <<IF pk.force THEN "kill" ELSE "terminate">>}
    /\ (pk.pc = "returned" /\ pk.response = Response("accept", TRUE, TRUE)) =>
          pk.signals # <<>> \/ pk.result = MsgNoLonger

\* a confirmed forced kill
C24_Witness ==
    /\ pk.pc = "returned"
    /\ pk.force
    /\ pk.response = Response("accept", TRUE, TRUE)
    /\ pk.signals = <<"kill">>
    /\ pk.result = MsgKilled

\* ------------------------------------------------------------------ C29
\* C29: _find_process_by_port gives a pid whenever some connection has the
\* port and a known pid, in whatever order the connections come, and gives
\* (None, "") only when no connection uses the port.
C29_FindsProcessOnPort ==
    pk.pc # "find" =>
        /\ (\E k \in 1..Len(pk.table) :
               pk.table[k].port = pk.port /\ pk.table[k].pid # NoPid)
             => pk.pid # NoPid
        /\ (pk.pid = NoPid /\ pk.process_name = "")
             => \A k \in 1..Len(pk.table) : pk.table[k].port # pk.port

\* ------------------------------------------------------------------ C27
\* the statuses of the components of the report
HcStatuses == {hc.components[k].status : k \in 1..Len(hc.components)}

C30_SummaryAgrees ==
    hc.pc = "returned" =>
        LET named == {hc.summary.issues[k] : k \in 1..Len(hc.summary.issues)}
        IN  /\ hc.overall_status # "healthy" => named # {}
            /\ \A k \in 1..Len(hc.components) :
                  hc.components[k].status # "healthy" =>
                      hc.components[k].name \in named
            /\ hc.overall_status = "healthy" =>
                  named = {} /\ ~hc.summary.with_issues

\* ------------------------------------------------------------------ C25
\* the prune operations a cleanup has invoked
ClPruned == {cl.pruned[k] : k \in 1..Len(cl.pruned)}

ClNoFlag == \A kind \in PruneKinds : ~cl.flags[kind]

ClOnlyFlaggedAfterAccept ==
    /\ \A kind \in ClPruned :
          /\ cl.flags[kind]
          /\ cl.docker_available
          /\ cl.elicits = 1
          /\ cl.response = Response("accept", TRUE, TRUE)
    /\ \A a, b \in 1..Len(cl.pruned) : a # b => cl.pruned[a] # cl.pruned[b]
    /\ (/\ cl.pc = "returned"
        /\ \/ ~cl.docker_available
           \/ cl.elicits = 1 /\ cl.response # Response("accept", TRUE, TRUE)) =>
          cl.pruned = <<>> /\ ~cl.result.success

\* C25 as stated: each prune operation is invoked only with its flag and
\* after an accepted confirmation; cancelled or without Docker nothing is
\* pruned and success is false; with every flag false the result is
\* success=true without confirmation or prune.
C25_PruneOnlyFlagged ==
    /\ ClOnlyFlaggedAfterAccept
    /\ (cl.pc = "returned" /\ ClNoFlag) =>
          cl.result.success /\ cl.elicits = 0 /\ cl.pruned = <<>>

\* C25 amended: as stated, but with every flag false the result is
\* success=true only when Docker is available; without Docker it is
\* success=false whatever the flags. No confirmation is asked and nothing
\* is pruned in either case.
C25_PruneOnlyFlaggedWithDocker ==
    /\ ClOnlyFlaggedAfterAccept
    /\ (cl.pc = "returned" /\ ClNoFlag) =>
          /\ cl.result.success <=> cl.docker_available
          /\ cl.elicits = 0
          /\ cl.pruned = <<>>

\* the default flags, confirmed: three prunes, no volumes
C25_Witness ==
    /\ cl.pc = "returned"
    /\ cl.result.success
    /\ ~cl.flags["volumes"]
    /\ cl.response = Response("accept", TRUE, TRUE)
    /\ cl.pruned = <<"containers", "images", "networks">>

\* ------------------------------------------------------------------ C26
\* C26: the prune steps run in the order containers, images, networks,
\* volumes; when a step raises no later step runs, success is false with
\* the "partially failed" message and items_removed holds exactly the
\* counts of the steps that completed before it.
C26_PartialFailureStops ==
    /\ \A a, b \in 1..Len(cl.pruned) :
          a < b =>
             \E i, j \in 1..4 :
                /\ i < j
                /\ <<"containers", "images", "networks", "volumes">>[i] = cl.pruned[a]
                /\ <<"containers", "images", "networks", "volumes">>[j] = cl.pruned[b]
    /\ (cl.pc = "returned" /\ cl.errors = 1) =>
          /\ cl.pruned # <<>>
          /\ ~cl.result.success
          /\ cl.result.message = MsgPartiallyFailed
          /\ [k \in 1..Len(cl.result.items_removed) |->
                 cl.result.items_removed[k].kind]
                = SubSeq(cl.pruned, 1, Len(cl.pruned) - 1)
          /\ \A kind \in PruneKinds :
                (cl.flags[kind] /\ kind \notin ClPruned) =>
                    \A k \in 1..Len(cl.result.items_removed) :
                        cl.result.items_removed[k].kind # kind

\* containers pruned, images raises, networks and volumes asked for but
\* never run
C26_Witness ==
    /\ cl.pc = "returned"
    /\ cl.errors = 1
    /\ \A kind \in PruneKinds : cl.flags[kind]
    /\ cl.pruned = <<"containers", "images">>
    /\ cl.result.items_removed = <<[kind |-> "containers", count |-> 2]>>
    /\ cl.result.message = MsgPartiallyFailed

\* ------------------------------------------------------------------ C28
\* C28: after any sequence of connect() and close() calls is_available is
\* true only while a client is held, and require_docker() hands back a
\* client exactly when the most recent connect() succeeded and no close()
\* came after it -- then the client of that connect(); never connected,
\* after a failed connect() and after close() it raises.
C28_ClientOnlyWhileConnected ==
    /\ dk.w._is_available => dk.w._client # NoClient
    /\ dk.w._is_available <=> dk.last = "connected"
    /\ ClientOf(dk.w) = IF dk.last = "connected" THEN dk.newest ELSE NoClient
    /\ dk.last = "connected" => dk.newest # NoClient
    /\ dk.required = dk.calls + 1 =>
          dk.got = IF dk.last = "connected" THEN dk.newest ELSE NoClient

\* connected, a second connect() failed on its ping, and require_docker()
\* raised although a client object is held
C28_Witness ==
    /\ dk.calls = 2
    /\ dk.made = 2
    /\ dk.last = "failed"
    /\ dk.w._client = 2
    /\ dk.required = 3
    /\ dk.got = NoClient

====
